---- MODULE Spec2Model ----
(***************************************************************************)
(* heic2jpg.py: batch conversion of HEIC/HEIF files to JPEG.               *)
(*                                                                         *)
(* A file name is a sequence of one-character strings, a path a sequence   *)
(* of file names, the filesystem a function from the paths that exist to   *)
(* what is there (a directory, or a file and its data).  Spec is the       *)
(* program run in normal mode (the two dialogs, validation, run_batch and  *)
(* its loop over convert_one); SpecFn applies the pure functions           *)
(* make_output_path and _fix_orientation_exif_bytes to bounded inputs.     *)
(***************************************************************************)
EXTENDS Integers, Sequences, FiniteSets

VARIABLES
    pc,               \* position of the program
    overwrite,        \* args.overwrite
    no_orient_fix,    \* args.no_orient_fix
    heif_available,   \* _HEIF_AVAILABLE, set by the import at start-up
    piexif_available, \* whether the import of piexif succeeded
    fs,               \* the filesystem
    fs_init,          \* the filesystem when the program started
    dialogs,          \* the folder dialogs shown so far, in order
    in_sel,           \* what the input dialog returned
    out_sel,          \* what the output dialog returned
    picked,           \* what pick_folders returned: <<src, dst>>
    stdout,           \* the lines printed
    boxes,            \* the message boxes shown
    exit_code,        \* the exit status, -1 while running
    exc,              \* the exception that ended the run, "" if none
    registered,       \* run_batch: "no" (not entered), "unavailable", "failed", "ok"
    files,            \* run_batch: the discovered files, in traversal order
    total,            \* run_batch: len(files)
    idx,              \* run_batch: how many files the loop has taken
    done,             \* run_batch: files attempted
    errors,           \* run_batch: files failed
    result,           \* what run_batch returned
    fs0,              \* the filesystem when run_batch was entered
    envs,             \* what the libraries did for each file attempted
    last,             \* the last call of convert_one
    fn_pc,            \* SpecFn: which function has been applied
    mop_args,         \* SpecFn: arguments of make_output_path
    mop_ret,          \* SpecFn: its result
    fix_args,         \* SpecFn: arguments of _fix_orientation_exif_bytes
    fix_ret           \* SpecFn: its result

main_vars == <<pc, overwrite, no_orient_fix, heif_available, piexif_available,
               fs, fs_init, dialogs, in_sel, out_sel, picked, stdout, boxes,
               exit_code,
               exc, registered, files, total, idx, done, errors, result, fs0, envs,
               last>>
fn_vars == <<fn_pc, mop_args, mop_ret, fix_args, fix_ret>>
vars == <<main_vars, fn_vars>>

---------------------------------------------------------------------------
(* Bounds *)

MaxFiles == 2
MaxNameLen == 4
MaxDepth == 1

---------------------------------------------------------------------------
(* Sequences *)

IsPrefix(a, b) == Len(a) <= Len(b) /\ SubSeq(b, 1, Len(a)) = a
Drop(s, n) == SubSeq(s, n + 1, Len(s))
Front(s) == SubSeq(s, 1, Len(s) - 1)
Last(s) == s[Len(s)]

RECURSIVE SeqsUpTo(_, _)
SeqsUpTo(S, n) ==
    IF n = 0 THEN {<<>>}
    ELSE LET shorter == SeqsUpTo(S, n - 1)
         IN  shorter \cup {Append(s, x) : s \in {t \in shorter : Len(t) = n - 1}, x \in S}

Perms(S) == {s \in [1..Cardinality(S) -> S] : \A x \in S : \E i \in DOMAIN s : s[i] = x}

---------------------------------------------------------------------------
(* pathlib *)

\* What a folder dialog answers and what pick_folders returns: None (the dialog
\* dismissed: askdirectory's empty answer) or a folder.  The root folder <<>> is
\* a folder like any other.
None == [some |-> FALSE, path |-> <<>>]
Folder(p) == [some |-> TRUE, path |-> p]

\* str.rfind('.'), counted from 1; 0 when there is no dot
rfind_dot(name) ==
    LET dots == {i \in 1..Len(name) : name[i] = "."}
    IN  IF dots = {} THEN 0 ELSE CHOOSE i \in dots : \A j \in dots : j <= i

\* PurePath.suffix of a file name
suffix(name) ==
    LET i == rfind_dot(name)
    IN  IF 1 < i /\ i < Len(name) THEN SubSeq(name, i, Len(name)) ELSE <<>>

\* PurePath.with_suffix
with_suffix(path, suf) ==
    IF path = <<>> \/ Last(path) = <<>>
    THEN [raised |-> TRUE, value |-> <<>>]
    ELSE LET name == Last(path)
             old == suffix(name)
             stem == SubSeq(name, 1, Len(name) - Len(old))
         IN  [raised |-> FALSE, value |-> Append(Front(path), stem \o suf)]

\* PurePath.relative_to
relative_to(src, root) ==
    IF IsPrefix(root, src)
    THEN [raised |-> FALSE, value |-> Drop(src, Len(root))]
    ELSE [raised |-> TRUE, value |-> <<>>]

DOT_JPG == <<".", "j", "p", "g">>

\* output_root / src.name: the directories between input_root and the file lost
MakeOutputPathFlat(src, input_root, output_root) ==
    LET rel == relative_to(src, input_root)
    IN  IF rel.raised THEN [raised |-> TRUE, value |-> <<>>]
        ELSE with_suffix(Append(output_root, Last(src)), DOT_JPG)

make_output_path(src, input_root, output_root) ==
    LET rel == relative_to(src, input_root)
    IN  IF rel.raised THEN [raised |-> TRUE, value |-> <<>>]
        ELSE with_suffix(output_root \o rel.value, DOT_JPG)

HEIC_EXTS == { <<".", "h", "e", "i", "c">>, <<".", "h", "e", "i", "f">>,
               <<".", "H", "E", "I", "C">>, <<".", "H", "E", "I", "F">> }

---------------------------------------------------------------------------
(* EXIF.  exif_bytes is None, b"" or a blob.  Of a blob the model keeps    *)
(* what piexif makes of it: whether piexif.load parses it ("garbage" when  *)
(* not), the orientation tag of its 0th IFD (0: no tag) and whether        *)
(* piexif.dump can write back the dictionary loaded from it.               *)

ExifNone == [kind |-> "none", orient |-> 0, dumps |-> FALSE]
ExifEmpty == [kind |-> "empty", orient |-> 0, dumps |-> FALSE]
ExifGarbage == [kind |-> "garbage", orient |-> 0, dumps |-> FALSE]
ExifBlob(orient, dumps) == [kind |-> "blob", orient |-> orient, dumps |-> dumps]
Orientations == {0, 1, 6}
ExifValues == {ExifNone, ExifEmpty, ExifGarbage}
              \cup {ExifBlob(o, d) : o \in Orientations, d \in BOOLEAN}

\* line 73: piexif.load
piexif_load(exif_bytes) ==
    IF exif_bytes.kind # "blob"
    THEN [raised |-> TRUE, value |-> [orient |-> 0, dumps |-> FALSE]]
    ELSE [raised |-> FALSE,
          value |-> [orient |-> exif_bytes.orient, dumps |-> exif_bytes.dumps]]

\* lines 74-75
set_orientation(exif_dict) ==
    IF exif_dict.orient # 0 THEN [exif_dict EXCEPT !.orient = 1] ELSE exif_dict

\* line 76: piexif.dump
piexif_dump(exif_dict) ==
    IF ~exif_dict.dumps
    THEN [raised |-> TRUE, value |-> ExifNone]
    ELSE [raised |-> FALSE, value |-> ExifBlob(exif_dict.orient, TRUE)]

\* _fix_orientation_exif_bytes with its except clause left out
FixNoCatch(exif_bytes, piexif) ==
    IF exif_bytes.kind \in {"none", "empty"} \/ ~piexif
    THEN [raised |-> FALSE, value |-> exif_bytes]
    ELSE LET ld == piexif_load(exif_bytes)
         IN  IF ld.raised THEN [raised |-> TRUE, value |-> ExifNone]
             ELSE piexif_dump(set_orientation(ld.value))

_fix_orientation_exif_bytes(exif_bytes, piexif) ==
    IF exif_bytes.kind \in {"none", "empty"} \/ ~piexif
    THEN [raised |-> FALSE, value |-> exif_bytes]
    ELSE LET ld == piexif_load(exif_bytes)
             dm == piexif_dump(set_orientation(ld.value))
         IN  IF ld.raised \/ dm.raised
             THEN [raised |-> FALSE, value |-> exif_bytes]
             ELSE dm

---------------------------------------------------------------------------
(* The filesystem: fs[p] is what exists at path p.  The root <<>> is a     *)
(* directory and is not in the domain.                                     *)

DirEntry == [kind |-> "dir", fmt |-> "", src |-> <<>>, exif |-> ExifNone]
FileEntry(fmt, src, exif) == [kind |-> "file", fmt |-> fmt, src |-> src, exif |-> exif]

exists(f, p) == p = <<>> \/ p \in DOMAIN f
is_dir(f, p) == p = <<>> \/ (p \in DOMAIN f /\ f[p].kind = "dir")
is_file(f, p) == p \in DOMAIN f /\ f[p].kind = "file"

Ancestors(p) == {SubSeq(p, 1, k) : k \in 0..(Len(p) - 1)}

Put(f, p, e) == [q \in DOMAIN f \cup {p} |-> IF q = p THEN e ELSE f[q]]

\* Path.mkdir(parents=True, exist_ok=True)
mkdir_parents(f, p) ==
    IF \E a \in Ancestors(p) : exists(f, a) /\ ~is_dir(f, a)
    THEN [raised |-> TRUE, exc_name |-> "NotADirectoryError", fs |-> f]
    ELSE IF exists(f, p) /\ ~is_dir(f, p)
    THEN [raised |-> TRUE, exc_name |-> "FileExistsError", fs |-> f]
    ELSE [raised |-> FALSE, exc_name |-> "",
          fs |-> [q \in DOMAIN f \cup ((Ancestors(p) \cup {p}) \ {<<>>}) |->
                    IF q \in DOMAIN f THEN f[q] ELSE DirEntry]]

ensure_parent(f, path) == mkdir_parents(f, Front(path))

\* root.rglob("*") filtered by is_file() and the suffix
find_heic_files(f, root) ==
    {p \in DOMAIN f : /\ IsPrefix(root, p) /\ Len(p) > Len(root)
                      /\ is_file(f, p)
                      /\ suffix(Last(p)) \in HEIC_EXTS}

---------------------------------------------------------------------------
(* convert_one.  env is what the image library does with this file:        *)
(* env.stage is where it raises ("none", "decode", "transform", "encode"), *)
(* env.exif the blob img.info.get("exif") returns.                         *)

Stages == {"none", "decode", "transform", "encode"}
FileExifs == {ExifNone, ExifBlob(6, TRUE), ExifGarbage}
Envs == {[stage |-> s, exif |-> ExifNone] : s \in Stages \ {"none"}}
        \cup {[stage |-> "none", exif |-> x] : x \in FileExifs}

Msg(kind, name, reason) == [kind |-> kind, name |-> name, reason |-> reason]

\* img.save(dest, ...): the file is opened for writing, then encoded; when the
\* encoder raises, Image.save removes the file if it created it and leaves a
\* file that was there before truncated.
save(f, dest, entry, stage) ==
    IF is_dir(f, dest) \/ ~is_dir(f, Front(dest))
    THEN [raised |-> TRUE, exc_name |-> "IsADirectoryError", fs |-> f]
    ELSE IF stage = "encode"
    THEN [raised |-> TRUE, exc_name |-> "encode",
          fs |-> IF exists(f, dest) THEN Put(f, dest, FileEntry("partial", <<>>, ExifNone)) ELSE f]
    ELSE [raised |-> FALSE, exc_name |-> "", fs |-> Put(f, dest, entry)]

\* the existence check left out
ShouldSkipNever(f, dest, overwrite_) == FALSE

\* line 83
ShouldSkip(f, dest, overwrite_) == exists(f, dest) /\ ~overwrite_

convert_one(f, src, dest, overwrite_, fix_orientation, piexif, env) ==
    LET name == Last(src)
        Ret(m, g, o) == [msg |-> m, fs |-> g, opened |-> o]
    IN
    IF ShouldSkip(f, dest, overwrite_)
    THEN Ret(Msg("SKIP (exists)", name, ""), f, FALSE)
    ELSE
    LET ep == ensure_parent(f, dest) IN
    IF ep.raised THEN Ret(Msg("ERROR", name, ep.exc_name), ep.fs, FALSE)
    ELSE IF env.stage = "decode" \/ ~is_file(ep.fs, src)
    THEN Ret(Msg("ERROR", name, "decode"), ep.fs, TRUE)
    ELSE
    LET fx == IF fix_orientation
              THEN _fix_orientation_exif_bytes(env.exif, piexif)
              ELSE [raised |-> FALSE, value |-> env.exif]
    IN
    IF fx.raised THEN Ret(Msg("ERROR", name, "exif"), ep.fs, TRUE)
    ELSE IF env.stage = "transform" THEN Ret(Msg("ERROR", name, "transform"), ep.fs, TRUE)
    ELSE
    LET sv == save(ep.fs, dest, FileEntry("jpeg", src, fx.value), env.stage) IN
    IF sv.raised THEN Ret(Msg("ERROR", name, sv.exc_name), sv.fs, TRUE)
    ELSE Ret(Msg("OK", name, ""), sv.fs, TRUE)

---------------------------------------------------------------------------
(* The files of a run *)

IN_DIR == <<"i", "n">>
OUT_DIR == <<"o", "u", "t">>
GONE_DIR == <<"g", "o", "n", "e">>
DIR_A == <<"a">>
B_HEIC_UP == <<"b", ".", "H", "E", "I", "C">>
B_HEIC == <<"b", ".", "h", "e", "i", "c">>
B_HEIC_MIXED == <<"b", ".", "H", "e", "i", "c">>
B_HEIF == <<"b", ".", "h", "e", "i", "f">>
C_JPG == <<"c", ".", "j", "p", "g">>
B_JPG == <<"b", ".", "j", "p", "g">>
D_HEIC == <<"d", ".", "h", "e", "i", "c">>
HIDDEN_HEIC == <<".", "h", "e", "i", "c">>

\* files that may be in the input folder, relative to it
TreeUniverse == { <<DIR_A, B_HEIC_UP>>, <<DIR_A, C_JPG>>, <<DIR_A, B_HEIF>>,
                  <<B_HEIC>>, <<B_HEIC_MIXED>>,
                  <<B_JPG, D_HEIC>>, <<HIDDEN_HEIC>> }

\* what may be in the output folder before the run
PreOptions == { [dirs |-> {}, files |-> {}],
                [dirs |-> {<<OUT_DIR>>}, files |-> {}],
                [dirs |-> {}, files |-> {<<OUT_DIR, DIR_A, B_JPG>>}],
                [dirs |-> {}, files |-> {<<OUT_DIR, B_JPG>>}],
                [dirs |-> {}, files |-> {<<OUT_DIR, DIR_A>>}] }

MkFs(tree, pre) ==
    LET srcs == {<<IN_DIR>> \o t : t \in tree}
        fls == srcs \cup pre.files
        drs == ({<<IN_DIR>>} \cup pre.dirs \cup UNION {Ancestors(p) : p \in fls}) \ {<<>>}
    IN  [p \in fls \cup drs |->
            IF p \in drs THEN DirEntry
            ELSE IF p \in srcs THEN FileEntry("source", <<>>, ExifNone)
            ELSE FileEntry("old", <<>>, ExifNone)]

NoCall == [called |-> FALSE, src |-> <<>>, dest |-> <<>>, pre |-> <<>>,
           msg |-> Msg("", <<>>, ""), opened |-> FALSE]

FnIdle ==
    /\ fn_pc = "off"
    /\ mop_args = <<>>
    /\ mop_ret = [raised |-> FALSE, value |-> <<>>]
    /\ fix_args = <<>>
    /\ fix_ret = [raised |-> FALSE, value |-> ExifNone]

Init ==
    /\ pc = "pick_in"
    /\ overwrite \in BOOLEAN
    /\ no_orient_fix \in BOOLEAN
    /\ heif_available \in BOOLEAN
    /\ piexif_available \in BOOLEAN
    /\ \E tree \in {t \in SUBSET TreeUniverse : Cardinality(t) <= MaxFiles},
          pre \in PreOptions : fs = MkFs(tree, pre)
    /\ fs_init = fs
    /\ dialogs = <<>>
    /\ in_sel = None
    /\ out_sel = None
    /\ picked = <<None, None>>
    /\ stdout = <<>>
    /\ boxes = <<>>
    /\ exit_code = -1
    /\ exc = ""
    /\ registered = "no"
    /\ files = <<>>
    /\ total = 0
    /\ idx = 0
    /\ done = 0
    /\ errors = 0
    /\ result = <<>>
    /\ fs0 = <<>>
    /\ envs = <<>>
    /\ last = NoCall
    /\ FnIdle

---------------------------------------------------------------------------
(* pick_folders *)

\* the two answers returned as they came
PickReturnsSelections(in_dir, out_dir) == <<in_dir, out_dir>>

\* lines 127-132: what pick_folders returns for the two dialogs' answers
pick_folders_return(in_dir, out_dir) ==
    IF ~in_dir.some \/ ~out_dir.some THEN <<None, None>> ELSE <<in_dir, out_dir>>

batch_vars == <<registered, files, total, idx, done, errors, result, fs0, envs,
                last>>

PickInput ==
    /\ pc = "pick_in"
    /\ \E sel \in {None, Folder(<<IN_DIR>>), Folder(<<GONE_DIR>>), Folder(<<>>)} :
        /\ dialogs' = Append(dialogs, "input")
        /\ in_sel' = sel
        /\ IF ~sel.some
           THEN picked' = pick_folders_return(sel, None) /\ pc' = "picked"
           ELSE picked' = picked /\ pc' = "pick_out"
    /\ UNCHANGED <<overwrite, no_orient_fix, heif_available, piexif_available, fs,
                   fs_init, out_sel, stdout, boxes, exit_code, exc, batch_vars,
                   fn_vars>>

PickOutput ==
    /\ pc = "pick_out"
    /\ \E sel \in {None, Folder(<<OUT_DIR>>)} :
        /\ dialogs' = Append(dialogs, "output")
        /\ out_sel' = sel
        /\ picked' = pick_folders_return(in_sel, sel)
        /\ pc' = "picked"
    /\ UNCHANGED <<overwrite, no_orient_fix, heif_available, piexif_available, fs,
                   fs_init, in_sel, stdout, boxes, exit_code, exc, batch_vars, fn_vars>>

---------------------------------------------------------------------------
(* __main__ *)

\* the except clause of __main__: an error dialog, and the exception re-raised
Fails(e) ==
    /\ exc' = e
    /\ boxes' = Append(boxes, [kind |-> "showerror", nums |-> <<>>])
    /\ exit_code' = 1
    /\ pc' = "exit"

Cancelled ==
    /\ pc = "picked"
    /\ ~picked[1].some \/ ~picked[2].some
    /\ stdout' = Append(stdout, Msg("Cancelled.", <<>>, ""))
    /\ exit_code' = 0
    /\ pc' = "exit"
    /\ UNCHANGED <<overwrite, no_orient_fix, heif_available, piexif_available, fs,
                   fs_init, dialogs, in_sel, out_sel, picked, boxes, exc, batch_vars, fn_vars>>

Validate ==
    /\ pc = "picked"
    /\ ~(~picked[1].some \/ ~picked[2].some)
    /\ IF ~exists(fs, picked[1].path) \/ ~is_dir(fs, picked[1].path)
       THEN Fails("FileNotFoundError") /\ fs' = fs
       ELSE LET mk == mkdir_parents(fs, picked[2].path)
            IN  IF mk.raised
                THEN Fails(mk.exc_name) /\ fs' = fs
                ELSE /\ fs' = mk.fs
                     /\ pc' = "run_batch"
                     /\ UNCHANGED <<exc, boxes, exit_code>>
    /\ UNCHANGED <<overwrite, no_orient_fix, heif_available, piexif_available,
                   fs_init, dialogs, in_sel, out_sel, picked, stdout, batch_vars, fn_vars>>

Report ==
    /\ pc = "report"
    /\ boxes' = Append(boxes, [kind |-> "showinfo", nums |-> <<result[2], result[1], result[3]>>])
    /\ stdout' = Append(stdout, Msg("Processed", <<>>, ""))
    /\ exit_code' = 0
    /\ pc' = "exit"
    /\ UNCHANGED <<overwrite, no_orient_fix, heif_available, piexif_available, fs,
                   fs_init, dialogs, in_sel, out_sel, picked, exc, batch_vars, fn_vars>>

---------------------------------------------------------------------------
(* run_batch *)

\* a failed registration swallowed
PrecheckIgnoresRegistration(available, register_ok) ==
    IF ~available THEN "HEIC support not available" ELSE ""

\* lines 99-106: the message of the RuntimeError raised, "" when none is
heif_precheck(available, register_ok) ==
    IF ~available THEN "HEIC support not available"
    ELSE IF ~register_ok THEN "HEIF initialization failed"
    ELSE ""

\* a skipped file not counted as attempted
DoneUnlessSkipped(n, msg) == IF msg.kind = "SKIP (exists)" THEN n ELSE n + 1

\* line 116
next_done(n, msg) == n + 1

\* lines 117-118
next_errors(n, msg) == IF msg.kind = "ERROR" THEN n + 1 ELSE n

RunBatchEnter ==
    /\ pc = "run_batch"
    /\ fs0' = fs
    /\ \E register_ok \in BOOLEAN :
        /\ registered' = IF ~heif_available THEN "unavailable"
                          ELSE IF register_ok THEN "ok" ELSE "failed"
        /\ LET err == heif_precheck(heif_available, register_ok)
               found == find_heic_files(fs, picked[1].path)
           IN  IF err # ""
               THEN /\ Fails("RuntimeError")
                    /\ UNCHANGED <<files, total, idx, done, errors>>
               ELSE /\ \E order \in Perms(found) : files' = order
                    /\ total' = Len(files')
                    /\ idx' = 0
                    /\ done' = 0
                    /\ errors' = 0
                    /\ pc' = "loop"
                    /\ UNCHANGED <<exc, boxes, exit_code>>
    /\ UNCHANGED <<overwrite, no_orient_fix, heif_available, piexif_available, fs,
                   fs_init, dialogs, in_sel, out_sel, picked, stdout, result, envs,
                   last, fn_vars>>

\* one iteration of the loop of lines 112-118
ConvertNext ==
    /\ pc = "loop"
    /\ idx < Len(files)
    /\ \E env \in Envs :
        LET src == files[idx + 1]
            mop == make_output_path(src, picked[1].path, picked[2].path)
        IN  IF mop.raised
            THEN /\ Fails("ValueError")
                 /\ UNCHANGED <<fs, stdout, idx, done, errors, envs, last>>
            ELSE LET r == convert_one(fs, src, mop.value, overwrite,
                                      ~no_orient_fix, piexif_available, env)
                 IN  /\ fs' = r.fs
                     /\ stdout' = Append(stdout, r.msg)
                     /\ idx' = idx + 1
                     /\ done' = next_done(done, r.msg)
                     /\ errors' = next_errors(errors, r.msg)
                     /\ envs' = Append(envs, env)
                     /\ last' = [called |-> TRUE, src |-> src, dest |-> mop.value,
                                 pre |-> fs, msg |-> r.msg, opened |-> r.opened]
                     /\ UNCHANGED <<pc, exc, boxes, exit_code>>
    /\ UNCHANGED <<overwrite, no_orient_fix, heif_available, piexif_available,
                   fs_init, dialogs, in_sel, out_sel, picked, registered, files, total,
                   result, fs0, fn_vars>>

RunBatchReturn ==
    /\ pc = "loop"
    /\ idx = Len(files)
    /\ result' = <<total, done, errors>>
    /\ pc' = "report"
    /\ UNCHANGED <<overwrite, no_orient_fix, heif_available, piexif_available, fs,
                   fs_init, dialogs, in_sel, out_sel, picked, stdout, boxes, exit_code, exc,
                   registered, files, total, idx, done, errors, fs0, envs, last, fn_vars>>

Next ==
    \/ PickInput
    \/ PickOutput
    \/ Cancelled
    \/ Validate
    \/ RunBatchEnter
    \/ ConvertNext
    \/ RunBatchReturn
    \/ Report

Spec == Init /\ [][Next]_vars

---------------------------------------------------------------------------
(* SpecFn: make_output_path and _fix_orientation_exif_bytes applied to     *)
(* bounded inputs.                                                         *)

NameChars == {"h", "H", "."}
Names == SeqsUpTo(NameChars, MaxNameLen) \ {<<>>, <<".">>, <<".", ".">>}
DirNames == {DIR_A, <<"h", ".", "H">>}
DirSeqs == SeqsUpTo(DirNames, MaxDepth)
InRoots == {<<IN_DIR>>, <<OUT_DIR, IN_DIR>>}
OutRoots == {<<OUT_DIR>>, <<IN_DIR, <<"o", ".", "d">>>>}

MainIdle ==
    /\ pc = "off"
    /\ overwrite = FALSE
    /\ no_orient_fix = FALSE
    /\ heif_available = FALSE
    /\ piexif_available = FALSE
    /\ fs = <<>>
    /\ fs_init = <<>>
    /\ dialogs = <<>>
    /\ in_sel = None
    /\ out_sel = None
    /\ picked = <<None, None>>
    /\ stdout = <<>>
    /\ boxes = <<>>
    /\ exit_code = -1
    /\ exc = ""
    /\ registered = "no"
    /\ files = <<>>
    /\ total = 0
    /\ idx = 0
    /\ done = 0
    /\ errors = 0
    /\ result = <<>>
    /\ fs0 = <<>>
    /\ envs = <<>>
    /\ last = NoCall

InitFn ==
    /\ MainIdle
    /\ mop_ret = [raised |-> FALSE, value |-> <<>>]
    /\ fix_ret = [raised |-> FALSE, value |-> ExifNone]
    /\ \/ /\ fn_pc = "call_make_output_path"
          /\ \E root \in InRoots, dirs \in DirSeqs, name \in Names,
                input_root \in InRoots, output_root \in OutRoots :
                mop_args = <<(root \o dirs) \o <<name>>, input_root, output_root>>
          /\ fix_args = <<>>
       \/ /\ fn_pc = "call_fix_orientation"
          /\ mop_args = <<>>
          /\ \E e \in ExifValues, piexif \in BOOLEAN : fix_args = <<e, piexif>>

ApplyMakeOutputPath ==
    /\ fn_pc = "call_make_output_path"
    /\ mop_ret' = make_output_path(mop_args[1], mop_args[2], mop_args[3])
    /\ fn_pc' = "ret_make_output_path"
    /\ UNCHANGED <<main_vars, mop_args, fix_args, fix_ret>>

ApplyFixOrientation ==
    /\ fn_pc = "call_fix_orientation"
    /\ fix_ret' = _fix_orientation_exif_bytes(fix_args[1], fix_args[2])
    /\ fn_pc' = "ret_fix_orientation"
    /\ UNCHANGED <<main_vars, mop_args, mop_ret, fix_args>>

NextFn == ApplyMakeOutputPath \/ ApplyFixOrientation

SpecFn == InitFn /\ [][NextFn]_vars

---------------------------------------------------------------------------
(* Properties *)

Returned == result # <<>>
StatusKinds == {"OK", "SKIP (exists)", "ERROR"}
StatusLines == {i \in 1..Len(stdout) : stdout[i].kind \in StatusKinds}
DestOf(src) == make_output_path(src, picked[1].path, picked[2].path).value

\* C1: when run_batch returns (total, done, errors), done = total, total is the
\* number of files discovered (an empty input folder gives (0, 0, 0)), and the
\* loop took every discovered file whatever the outcomes were.
C1_DoneEqualsTotal ==
    Returned =>
        /\ result[2] = result[1]
        /\ result[1] = Cardinality(find_heic_files(fs0, picked[1].path))
        /\ find_heic_files(fs0, picked[1].path) = {} => result = <<0, 0, 0>>
        /\ Cardinality(StatusLines) = result[1]
        /\ result[3] = Cardinality({i \in StatusLines : stdout[i].kind = "ERROR"})

\* a batch of two files, one skipped and one failed, has returned
C1_Witness ==
    /\ Returned
    /\ result = <<2, 2, 1>>
    /\ \E i \in StatusLines : stdout[i].kind = "SKIP (exists)"

\* C2: convert_one called with a destination that exists and overwrite false
\* answers "SKIP (exists): <name>", leaves the filesystem as it was and does not
\* open the source.
C2_SkipLeavesFilesystem ==
    (last.called /\ exists(last.pre, last.dest) /\ ~overwrite) =>
        /\ last.msg = Msg("SKIP (exists)", Last(last.src), "")
        /\ fs = last.pre
        /\ ~last.opened

\* convert_one has been called on a destination holding an older file
C2_Witness ==
    /\ last.called
    /\ ~overwrite
    /\ is_file(last.pre, last.dest)
    /\ last.pre[last.dest].fmt = "old"
    /\ last.msg.kind = "SKIP (exists)"

\* C3: convert_one changes the filesystem only when it succeeds, and then only
\* by the one file at the destination; after SKIP or ERROR the filesystem is as
\* it was before the call.
C3_FailedWritesNothing ==
    last.called =>
        /\ last.msg.kind \in {"ERROR", "SKIP (exists)"} => fs = last.pre
        /\ last.msg.kind = "OK" =>
              /\ is_file(fs, last.dest)
              /\ \A p \in (DOMAIN fs \cup DOMAIN last.pre) \ {last.dest} :
                    (is_file(fs, p) \/ is_file(last.pre, p)) =>
                        /\ p \in DOMAIN fs /\ p \in DOMAIN last.pre
                        /\ fs[p] = last.pre[p]

OkEnv == [stage |-> "none", exif |-> ExifNone]

\* the status kinds run_batch's loop gives from file i on, starting from
\* filesystem f, with the libraries behaving as es says
RECURSIVE Replay(_, _, _, _)
Replay(i, f, es, acc) ==
    IF i > Len(files) THEN acc
    ELSE LET r == convert_one(f, files[i], DestOf(files[i]), overwrite,
                              ~no_orient_fix, piexif_available, es[i])
         IN  Replay(i + 1, r.fs, es, Append(acc, r.msg.kind))

\* C4: a file whose decoding, transformation or encoding failed leaves every
\* other file of the batch with the outcome it would have had if that file had
\* been converted.
C4_FailureIsolated ==
    Returned =>
        \A i \in 1..Len(files) :
            (stdout[i].kind = "ERROR" /\ envs[i].stage # "none"
                /\ stdout[i].reason = envs[i].stage) =>
                LET ref == Replay(1, fs0, [envs EXCEPT ![i] = OkEnv], <<>>)
                IN  ref[i] = "OK" =>
                        \A j \in (1..Len(files)) \ {i} : ref[j] = stdout[j].kind

Lower(c) ==
    CASE c = "H" -> "h" [] c = "E" -> "e" [] c = "I" -> "i"
      [] c = "C" -> "c" [] c = "F" -> "f" [] OTHER -> c
LowerSeq(s) == [i \in 1..Len(s) |-> Lower(s[i])]

\* C5: the files discovered are exactly the regular files under the input
\* folder whose extension is .heic or .heif in any casing.
C5_DiscoveryCaseInsensitive ==
    registered = "ok" =>
        {files[i] : i \in 1..Len(files)} =
            {p \in DOMAIN fs0 :
                /\ IsPrefix(picked[1].path, p) /\ Len(p) > Len(picked[1].path)
                /\ is_file(fs0, p)
                /\ LowerSeq(suffix(Last(p))) \in
                      {<<".", "h", "e", "i", "c">>, <<".", "h", "e", "i", "f">>}}

\* the file name with its final extension (what follows the last dot, when that
\* dot is neither the first nor the last character) replaced by .jpg; a name
\* with no extension gets .jpg added
ExtensionReplaced(name, out) ==
    LET cuts == {k \in 2..(Len(name) - 1) :
                    /\ name[k] = "."
                    /\ \A j \in (k + 1)..Len(name) : name[j] # "."}
    IN  IF cuts = {} THEN out = name \o DOT_JPG
        ELSE \E k \in cuts : out = SubSeq(name, 1, k - 1) \o DOT_JPG

\* C6: for a source under input_root, make_output_path gives a path under
\* output_root with the source's directories relative to input_root and the
\* source's file name with its final extension replaced by .jpg.
C6_MirroredJpgPath ==
    (fn_pc = "ret_make_output_path" /\ IsPrefix(mop_args[2], mop_args[1])) =>
        LET src == mop_args[1]
            rel == Drop(src, Len(mop_args[2]))
            out == mop_ret.value
        IN  /\ ~mop_ret.raised
            /\ IsPrefix(mop_args[3], out)
            /\ Len(out) = Len(mop_args[3]) + Len(rel)
            /\ Front(Drop(out, Len(mop_args[3]))) = Front(rel)
            /\ ExtensionReplaced(Last(src), Last(out))

\* in/a/h.H has been mapped to out/a/h.jpg
C6_Witness ==
    /\ fn_pc = "ret_make_output_path"
    /\ mop_args = <<(<<IN_DIR, DIR_A, <<"h", ".", "H">>>>), <<IN_DIR>>, <<OUT_DIR>>>>
    /\ mop_ret.value = <<OUT_DIR, DIR_A, <<"h", ".", "j", "p", "g">>>>

\* C7: when HEIF support is unavailable or its registration fails, run_batch
\* raises RuntimeError with nothing discovered, no file converted or written and
\* no status line printed.
C7_HeifFailsFast ==
    /\ registered \in {"unavailable", "failed"} =>
          /\ pc = "exit" /\ exc = "RuntimeError"
          /\ files = <<>> /\ idx = 0 /\ envs = <<>>
          /\ ~last.called
          /\ StatusLines = {}
          /\ ~Returned
          /\ fs = fs0
    /\ ~heif_available => registered \in {"no", "unavailable"}

\* registration failed with files waiting in the input folder
C7_Witness ==
    /\ registered = "failed"
    /\ exc = "RuntimeError"
    /\ find_heic_files(fs, picked[1].path) # {}

PickingOver == pc \notin {"pick_in", "pick_out"}

\* C8: the output dialog is shown only after the input dialog returned a
\* selection; when either is dismissed pick_folders returns (None, None) and the
\* program prints "Cancelled." and exits with status 0, having validated nothing,
\* created nothing and not entered run_batch.
C8_CancelPath ==
    /\ \A i \in 1..Len(dialogs) :
          dialogs[i] = "output" => (i = 2 /\ dialogs[1] = "input" /\ in_sel # None)
    /\ (PickingOver /\ (in_sel = None \/ out_sel = None)) =>
          /\ picked = <<None, None>>
          /\ pc \in {"picked", "exit"}
          /\ fs = fs_init
          /\ boxes = <<>> /\ exc = ""
          /\ registered = "no"
          /\ pc = "exit" =>
                (stdout = <<Msg("Cancelled.", <<>>, "")>> /\ exit_code = 0)

\* the output dialog was dismissed after an input folder was chosen, and the
\* program has exited
C8_Witness ==
    /\ pc = "exit"
    /\ dialogs = <<"input", "output">>
    /\ in_sel = Folder(<<IN_DIR>>)
    /\ out_sel = None
    /\ exit_code = 0

\* C9: _fix_orientation_exif_bytes never raises; it returns its input for None,
\* for empty bytes and when piexif is missing, and the original bytes when
\* loading or dumping the EXIF fails.
C9_FixNeverRaises ==
    fn_pc = "ret_fix_orientation" =>
        LET exif_bytes == fix_args[1]
            piexif == fix_args[2]
            parse_fails == exif_bytes.kind = "garbage"
            dump_fails == exif_bytes.kind = "blob" /\ ~exif_bytes.dumps
        IN  /\ ~fix_ret.raised
            /\ (exif_bytes.kind \in {"none", "empty"} \/ ~piexif) =>
                  fix_ret.value = exif_bytes
            /\ (parse_fails \/ dump_fails) => fix_ret.value = exif_bytes

\* with piexif present, a blob that loads with orientation 6 and cannot be
\* dumped came back as it was
C9_Witness ==
    /\ fn_pc = "ret_fix_orientation"
    /\ fix_args = <<ExifBlob(6, FALSE), TRUE>>
    /\ fix_ret = [raised |-> FALSE, value |-> ExifBlob(6, FALSE)]

\* C10: two different discovered files never have the same destination.
C10_DisjointDestinations ==
    \A i, j \in 1..Len(files) : i # j => DestOf(files[i]) # DestOf(files[j])

====
